---- MODULE Spec2Model ----
(***************************************************************************)
(* A model of the triSYCL AI Engine grid execution and synchronisation     *)
(* engine: the lock unit of a memory tile (lock.hpp), the barriers a tile  *)
(* builds from it (tile.hpp) and the launch and join of the tile programs  *)
(* (program.hpp, tile_infrastructure.hpp).                                 *)
(*                                                                         *)
(* A tile and a memory module are named by their linear id, as in the      *)
(* tuples program::tiles and program::memory_modules, and a locking device *)
(* by the pair <<memory module, lock index>>.  The mutex of a locking      *)
(* device is held by acquire() until the matching release();               *)
(* acquire_with_value() and release_with_value() hold it only for the test *)
(* or the update of the value, which is one step of the model, taken when  *)
(* the mutex is free.                                                      *)
(***************************************************************************)
EXTENDS Integers, Sequences, FiniteSets, TLC

\* Largest grid width and height explored, and largest number of tiles
MaxX == 2
MaxY == 3
MaxTiles == 6
\* Largest number of contexts using the lock unit directly, and largest
\* product of their number by the number of locking devices they use
MaxCtx == 3
MaxLockUse == 4
\* How far out of the range of the lock indices lock(i) is called
MaxBeyond == 2
\* The largest arena in units of alloc_align, the largest size requested
\* from the allocator and the longest list of blocks
MaxHeapWords == 12
MaxReq == 13
MaxBlocks == 3
\* The largest grid whose layout is examined
MaxGeoX == 2
MaxGeoY == 3
\* The largest physical port number of a switch
MaxPort == 4
\* The longest row or column of tiles on its own
MaxLine == 3
\* The requests taken below 2^31 and below 2^32
MaxWide == 4
\* The barriers of the kernel that calls barrier() in a loop, and the
\* tiles of its grids
MaxRounds == 2
MaxLoopTiles == 4

\* lock_unit::lock_number
lock_number == 16
\* The default lock of horizontal_barrier() and of vertical_barrier()
horizontal_lock == 14
vertical_lock == 15

VARIABLES
  x_size,       \* geo::x_size, the width of the grid
  y_size,       \* geo::y_size, the height of the grid
  kernel,       \* the member function the program of every tile calls
  value,        \* locking_device::value of every locking device
  owner,        \* the context owning the mutex m of every locking device
  waiting,      \* the contexts blocked in cv->wait() of every locking device
  held,         \* the locking devices every context has acquired
  call,         \* the lock operation every context executes or has executed
  ip,           \* the position of every tile in its program, 0 before it
  future_work,  \* tile_infrastructure::future_work of every tile
  run_pc,       \* the position of the host in program::run()
  program,      \* the lock operations of the kernel of every tile, in order
  devs,         \* the locking devices the contexts use directly
  run_i,        \* the linear id of the tile program::run() is handling
  ndebug,       \* the build has NDEBUG defined: assert() is compiled out
  lookup,       \* the last call of lock_unit::lock(i) and its outcome
  raised,       \* the work of the tile has ended with an exception
  host,         \* the last call of single_task() or wait() and its outcome
  heap_size,    \* hw::heap_size, the size of the arena of the tile
  total_list,   \* allocator_global::total_list, the blocks in list order
  heap,         \* the last call of the allocator and what it returned
  probe         \* the last call of a function of the layout and its result

vars == <<x_size, y_size, kernel, value, owner, waiting, held, call, ip,
          future_work, run_pc, run_i, program, devs, ndebug, lookup,
          raised, host, heap_size, total_list, heap, probe>>

NoCtx == -1
NoCall == [op |-> "none", at |-> "done"]
NoLookup == [unit |-> -1, i |-> 0, outcome |-> "none"]
NoHost == [op |-> "none", tile |-> -1, outcome |-> "ok"]
NoProbe == [fn |-> "none", args |-> <<>>, ok |-> TRUE, val |-> -1]
nullptr == 0
NoHeap == [op |-> "none", size |-> 0, ptr |-> nullptr, outcome |-> "ok"]

\* The allocator of the tile and its arena
Heap == <<heap_size, total_list, heap>>

\* init_allocator() has not been called
HeapOff == heap_size = 0 /\ total_list = <<>> /\ heap = NoHeap

----------------------------------------------------------------------------
(* The geography of the grid *)

x_max == x_size - 1
y_max == y_size - 1

linear_id(x, y) == x + x_size * y

\* The linear ids of the tiles, which are those of the memory modules
Tiles == 0 .. x_size * y_size - 1

X(t) == t % x_size

Y(t) == t \div x_size

LockIds == 0 .. lock_number - 1

is_west_column(x) == x = 0

is_east_column(x) == x = x_max

is_south_row(y) == y = 0

is_north_row(y) == y = y_max

Odd(y) == y % 2 = 1

is_memory_module(x, y, dx, dy) ==
  CASE dx = -1 /\ dy = 0 -> ~(is_west_column(x) /\ ~Odd(y))
    [] dx = 1 /\ dy = 0 -> ~(is_east_column(x) /\ Odd(y))
    [] dx = 0 /\ dy = -1 -> ~is_south_row(y)
    [] dx = 0 /\ dy = 1 -> ~is_north_row(y)
    [] OTHER -> FALSE

\* The linear id of the memory module at offset (dx, dy) of tile (x, y)
memory_module_linear_id(x, y, dx, dy) ==
  CASE dx = -1 -> IF Odd(y) THEN linear_id(x, y) ELSE linear_id(x - 1, y)
    [] dx = 1 -> IF Odd(y) THEN linear_id(x + 1, y) ELSE linear_id(x, y)
    [] OTHER -> linear_id(x, y + dy)

is_memory_module_west(x, y) == is_memory_module(x, y, -1, 0)

is_memory_module_east(x, y) == is_memory_module(x, y, 1, 0)

is_memory_module_south(x, y) == is_memory_module(x, y, 0, -1)

is_memory_module_north(x, y) == is_memory_module(x, y, 0, 1)

mem_west(x, y) == memory_module_linear_id(x, y, -1, 0)

mem_east(x, y) == memory_module_linear_id(x, y, 1, 0)

mem_south(x, y) == memory_module_linear_id(x, y, 0, -1)

\* mem_north() that gets the memory module of the Northern row
mem_north_Far(x, y) == linear_id(x, y_max)

mem_north(x, y) == memory_module_linear_id(x, y, 0, 1)

\* mem() with the parities of the rows exchanged
mem_EvenWest(x, y) == IF Odd(y) THEN mem_east(x, y) ELSE mem_west(x, y)

\* The memory module native to the tile
mem(x, y) == IF Odd(y) THEN mem_west(x, y) ELSE mem_east(x, y)

----------------------------------------------------------------------------
(* The program of a tile: the lock operations of its barriers, in order *)

Awv(m, lock, expectation) ==
  [op |-> "acquire_with_value", dev |-> <<m, lock>>, val |-> expectation]

Rwv(m, lock, new_value) ==
  [op |-> "release_with_value", dev |-> <<m, lock>>, val |-> new_value]

When(c, s) == IF c THEN s ELSE <<>>

\* horizontal_barrier() in which every tile waits on the lock of its own
\* memory module and acknowledges on it, the first of the row too
horizontal_barrier_AllWait(x, y, lock) ==
  IF Odd(y)
  THEN <<Awv(mem(x, y), lock, TRUE)>>
       \o When(is_memory_module_east(x, y),
               <<Awv(mem_east(x, y), lock, FALSE),
                 Rwv(mem_east(x, y), lock, TRUE),
                 Awv(mem_east(x, y), lock, FALSE)>>)
       \o <<Rwv(mem(x, y), lock, FALSE)>>
  ELSE <<Awv(mem(x, y), lock, TRUE)>>
       \o When(is_memory_module_west(x, y),
               <<Awv(mem_west(x, y), lock, FALSE),
                 Rwv(mem_west(x, y), lock, TRUE),
                 Awv(mem_west(x, y), lock, FALSE)>>)
       \o <<Rwv(mem(x, y), lock, FALSE)>>

\* horizontal_barrier() without the acknowledgement to the neighbour that
\* has passed the token
horizontal_barrier_NoAck(x, y, lock) ==
  IF Odd(y)
  THEN When(~is_west_column(x), <<Awv(mem(x, y), lock, TRUE)>>)
       \o When(is_memory_module_east(x, y),
               <<Awv(mem_east(x, y), lock, FALSE),
                 Rwv(mem_east(x, y), lock, TRUE),
                 Awv(mem_east(x, y), lock, FALSE)>>)
  ELSE When(~is_east_column(x), <<Awv(mem(x, y), lock, TRUE)>>)
       \o When(is_memory_module_west(x, y),
               <<Awv(mem_west(x, y), lock, FALSE),
                 Rwv(mem_west(x, y), lock, TRUE),
                 Awv(mem_west(x, y), lock, FALSE)>>)

\* horizontal_barrier() that passes the token and does not wait for the
\* acknowledgement
horizontal_barrier_NoWait(x, y, lock) ==
  IF Odd(y)
  THEN When(~is_west_column(x), <<Awv(mem(x, y), lock, TRUE)>>)
       \o When(is_memory_module_east(x, y),
               <<Awv(mem_east(x, y), lock, FALSE),
                 Rwv(mem_east(x, y), lock, TRUE)>>)
       \o When(~is_west_column(x), <<Rwv(mem(x, y), lock, FALSE)>>)
  ELSE When(~is_east_column(x), <<Awv(mem(x, y), lock, TRUE)>>)
       \o When(is_memory_module_west(x, y),
               <<Awv(mem_west(x, y), lock, FALSE),
                 Rwv(mem_west(x, y), lock, TRUE)>>)
       \o When(~is_east_column(x), <<Rwv(mem(x, y), lock, FALSE)>>)

\* horizontal_barrier() with the test of the parity of the row inverted
horizontal_barrier_EvenWestToEast(x, y, lock) ==
  IF ~Odd(y)
  THEN When(~is_west_column(x), <<Awv(mem(x, y), lock, TRUE)>>)
       \o When(is_memory_module_east(x, y),
               <<Awv(mem_east(x, y), lock, FALSE),
                 Rwv(mem_east(x, y), lock, TRUE),
                 Awv(mem_east(x, y), lock, FALSE)>>)
       \o When(~is_west_column(x), <<Rwv(mem(x, y), lock, FALSE)>>)
  ELSE When(~is_east_column(x), <<Awv(mem(x, y), lock, TRUE)>>)
       \o When(is_memory_module_west(x, y),
               <<Awv(mem_west(x, y), lock, FALSE),
                 Rwv(mem_west(x, y), lock, TRUE),
                 Awv(mem_west(x, y), lock, FALSE)>>)
       \o When(~is_east_column(x), <<Rwv(mem(x, y), lock, FALSE)>>)

horizontal_barrier(x, y, lock) ==
  IF Odd(y)
  THEN \* Propagate a token from West to East and back
       When(~is_west_column(x), <<Awv(mem(x, y), lock, TRUE)>>)
       \o When(is_memory_module_east(x, y),
               <<Awv(mem_east(x, y), lock, FALSE),
                 Rwv(mem_east(x, y), lock, TRUE),
                 Awv(mem_east(x, y), lock, FALSE)>>)
       \o When(~is_west_column(x), <<Rwv(mem(x, y), lock, FALSE)>>)
  ELSE \* Propagate a token from East to West and back
       When(~is_east_column(x), <<Awv(mem(x, y), lock, TRUE)>>)
       \o When(is_memory_module_west(x, y),
               <<Awv(mem_west(x, y), lock, FALSE),
                 Rwv(mem_west(x, y), lock, TRUE),
                 Awv(mem_west(x, y), lock, FALSE)>>)
       \o When(~is_east_column(x), <<Rwv(mem(x, y), lock, FALSE)>>)

\* vertical_barrier() that passes the token only: no acknowledgement is
\* given or waited for
vertical_barrier_TokenOnly(x, y, lock) ==
  When(~is_south_row(y), <<Awv(mem(x, y), lock, TRUE)>>)
  \o When(is_memory_module_north(x, y),
          <<Awv(mem_north(x, y), lock, FALSE),
            Rwv(mem_north(x, y), lock, TRUE)>>)

\* vertical_barrier() without the acknowledgement to the neighbour that
\* has passed the token
vertical_barrier_NoAck(x, y, lock) ==
  When(~is_south_row(y), <<Awv(mem(x, y), lock, TRUE)>>)
  \o When(is_memory_module_north(x, y),
          <<Awv(mem_north(x, y), lock, FALSE),
            Rwv(mem_north(x, y), lock, TRUE),
            Awv(mem_north(x, y), lock, FALSE)>>)

\* vertical_barrier() that passes the token and does not wait for the
\* acknowledgement
vertical_barrier_NoWait(x, y, lock) ==
  When(~is_south_row(y), <<Awv(mem(x, y), lock, TRUE)>>)
  \o When(is_memory_module_north(x, y),
          <<Awv(mem_north(x, y), lock, FALSE),
            Rwv(mem_north(x, y), lock, TRUE)>>)
  \o When(~is_south_row(y), <<Rwv(mem(x, y), lock, FALSE)>>)

vertical_barrier(x, y, lock) ==
  \* Propagate a token from South to North and back
  When(~is_south_row(y), <<Awv(mem(x, y), lock, TRUE)>>)
  \o When(is_memory_module_north(x, y),
          <<Awv(mem_north(x, y), lock, FALSE),
            Rwv(mem_north(x, y), lock, TRUE),
            Awv(mem_north(x, y), lock, FALSE)>>)
  \o When(~is_south_row(y), <<Rwv(mem(x, y), lock, FALSE)>>)

\* barrier() without the vertical barrier
barrier_HorizontalOnly(x, y) ==
  horizontal_barrier(x, y, horizontal_lock)

barrier(x, y) ==
  horizontal_barrier(x, y, horizontal_lock)
  \o vertical_barrier(x, y, vertical_lock)

\* The computation of a tile between two barriers, on its own data
Compute == [op |-> "compute", dev |-> <<0, 0>>, val |-> FALSE]

RECURSIVE compute(_, _, _)
\* The kernel that computes and calls barrier(), rounds times
compute(x, y, rounds) ==
  IF rounds = 0 THEN <<>>
  ELSE <<Compute>> \o barrier(x, y) \o compute(x, y, rounds - 1)

Kernels == {"barrier", "horizontal_barrier", "vertical_barrier"}

\* The lock operations of the kernel of tile t
Program(t) ==
  CASE kernel = "barrier" -> barrier(X(t), Y(t))
    [] kernel = "horizontal_barrier" ->
         horizontal_barrier(X(t), Y(t), horizontal_lock)
    [] kernel = "vertical_barrier" ->
         vertical_barrier(X(t), Y(t), vertical_lock)
    [] kernel = "compute" -> compute(X(t), Y(t), MaxRounds)
    [] OTHER -> <<>>

\* The tile is in its kernel's barrier call, has returned from it
Entered(t) == ip[t] >= 1

Returned(t) == ip[t] = Len(program[t]) + 1

----------------------------------------------------------------------------
(* The locking device *)

Value(d) == value[d[1]][d[2]]

\* One mutex for the locking devices of a lock unit
Owner_OfUnit(d) ==
  IF \E i \in LockIds : owner[d[1]][i] # NoCtx
  THEN owner[d[1]][CHOOSE i \in LockIds : owner[d[1]][i] # NoCtx]
  ELSE NoCtx

Owner(d) == owner[d[1]][d[2]]

Waiting(d) == waiting[d[1]][d[2]]

\* Context t is in operation op of device d, at the given place
At(t, op, d, val, place) ==
  call' = [call EXCEPT ![t] = [op |-> op, dev |-> d, val |-> val,
                               at |-> place]]

\* A tile in its program goes on to its next lock operation
Advance(t) == ip' = [ip EXCEPT ![t] = IF @ >= 1 THEN @ + 1 ELSE @]

\* The body of acquire(): m->lock() has locked the mutex
Locked(t, d) ==
  /\ owner' = [owner EXCEPT ![d[1]][d[2]] = t]
  /\ held' = [held EXCEPT ![t] = @ \cup {d}]
  /\ call' = [call EXCEPT ![t] = NoCall]
  /\ Advance(t)
  /\ UNCHANGED <<value, waiting>>

\* acquire_with_value() with the comparison of the predicate inverted
Test_Inverted(t, d, expectation) ==
  /\ IF expectation # Value(d)
     THEN /\ At(t, "acquire_with_value", d, expectation, "done")
          /\ Advance(t)
          /\ UNCHANGED waiting
     ELSE /\ At(t, "acquire_with_value", d, expectation, "wait")
          /\ waiting' = [waiting EXCEPT ![d[1]][d[2]] = @ \cup {t}]
          /\ UNCHANGED ip
  /\ UNCHANGED <<value, owner, held>>

\* acquire_with_value() that takes the value it has waited for
Test_Consuming(t, d, expectation) ==
  /\ IF expectation = Value(d)
     THEN /\ At(t, "acquire_with_value", d, expectation, "done")
          /\ value' = [value EXCEPT ![d[1]][d[2]] = ~expectation]
          /\ Advance(t)
          /\ UNCHANGED waiting
     ELSE /\ At(t, "acquire_with_value", d, expectation, "wait")
          /\ waiting' = [waiting EXCEPT ![d[1]][d[2]] = @ \cup {t}]
          /\ UNCHANGED <<value, ip>>
  /\ UNCHANGED <<owner, held>>

\* The body of acquire_with_value(): cv->wait(lk, pred) with the mutex
\* locked.  With the expectation met the operation returns and lk unlocks
\* the mutex, else the context unlocks it and blocks.  A context unblocked
\* with the expectation not met blocks again, which is how a spurious
\* wake-up ends too
Test(t, d, expectation) ==
  /\ IF expectation = Value(d)
     THEN /\ At(t, "acquire_with_value", d, expectation, "done")
          /\ Advance(t)
          /\ UNCHANGED waiting
     ELSE /\ At(t, "acquire_with_value", d, expectation, "wait")
          /\ waiting' = [waiting EXCEPT ![d[1]][d[2]] = @ \cup {t}]
          /\ UNCHANGED ip
  /\ UNCHANGED <<value, owner, held>>

\* The body of release_with_value(), up to the unlocking of the mutex
Set(t, d, new_value) ==
  /\ value' = [value EXCEPT ![d[1]][d[2]] = new_value]
  /\ At(t, "release_with_value", d, new_value, "notify")
  /\ UNCHANGED <<owner, held, waiting, ip>>

Body(t, op, d, val) ==
  CASE op = "acquire" -> Locked(t, d)
    [] op = "acquire_with_value" -> Test(t, d, val)
    [] op = "release_with_value" -> Set(t, d, val)

\* The operations with a mutex that does not block
Call_NoMutex(t, op, d, val) ==
  /\ call[t].at = "done"
  /\ Body(t, op, d, val)

\* Context t calls an operation that locks the mutex: with the mutex free
\* it executes the body, else it blocks in m->lock()
Call(t, op, d, val) ==
  /\ call[t].at = "done"
  /\ IF Owner(d) = NoCtx
     THEN Body(t, op, d, val)
     ELSE /\ At(t, op, d, val, "lock")
          /\ UNCHANGED <<value, owner, held, waiting, ip>>

acquire(t, d) == Call(t, "acquire", d, FALSE)

acquire_with_value(t, d, expectation) ==
  Call(t, "acquire_with_value", d, expectation)

release_with_value(t, d, new_value) ==
  Call(t, "release_with_value", d, new_value)

\* release(): m->unlock(), by the context that has locked the mutex
release(t, d) ==
  /\ call[t].at = "done"
  /\ d \in held[t]
  /\ owner' = [owner EXCEPT ![d[1]][d[2]] = NoCtx]
  /\ held' = [held EXCEPT ![t] = @ \ {d}]
  /\ UNCHANGED <<value, waiting, call, ip>>

\* acquire_with_value() with a wait that ends by itself after some time
Lock_TimedOut(t) ==
  /\ call[t].at \in {"lock", "wait"}
  /\ Owner(call[t].dev) = NoCtx
  /\ Body(t, call[t].op, call[t].dev, call[t].val)

\* A context blocked in m->lock(), or unblocked by a notification, locks
\* the mutex once it is free and executes the body of its operation
Lock(t) ==
  /\ call[t].at = "lock"
  /\ Owner(call[t].dev) = NoCtx
  /\ Body(t, call[t].op, call[t].dev, call[t].val)

\* release_with_value() without cv->notify_one()
Notify_Nobody(t) ==
  /\ call[t].at = "notify"
  /\ call' = [call EXCEPT ![t] = NoCall]
  /\ Advance(t)
  /\ UNCHANGED <<value, owner, held, waiting>>

\* cv->notify_one(): one of the blocked contexts, if any, is unblocked and
\* has to lock the mutex again; release_with_value() returns
Notify(t) ==
  /\ call[t].at = "notify"
  /\ LET d == call[t].dev
     IN IF Waiting(d) = {}
        THEN /\ call' = [call EXCEPT ![t] = NoCall]
             /\ UNCHANGED waiting
        ELSE \E w \in Waiting(d) :
               /\ waiting' = [waiting EXCEPT ![d[1]][d[2]] = @ \ {w}]
               /\ call' = [call EXCEPT ![t] = NoCall, ![w].at = "lock"]
  /\ Advance(t)
  /\ UNCHANGED <<value, owner, held>>

----------------------------------------------------------------------------
(* The execution of the program on the grid *)

Grids ==
  {g \in (1 .. MaxX) \X (1 .. MaxY) : g[1] * g[2] <= MaxTiles}

Init ==
  /\ \E g \in Grids : x_size = g[1] /\ y_size = g[2]
  /\ kernel \in Kernels
  /\ value = [m \in Tiles |-> [i \in LockIds |-> FALSE]]
  /\ owner = [m \in Tiles |-> [i \in LockIds |-> NoCtx]]
  /\ waiting = [m \in Tiles |-> [i \in LockIds |-> {}]]
  /\ held = [t \in Tiles |-> {}]
  /\ call = [t \in Tiles |-> NoCall]
  /\ ip = [t \in Tiles |-> 0]
  /\ future_work = [t \in Tiles |-> "invalid"]
  /\ run_pc = "submit"
  /\ run_i = 0
  /\ program = [t \in Tiles |-> Program(t)]
  /\ devs = {}
  /\ ndebug = FALSE
  /\ lookup = NoLookup
  /\ probe = NoProbe
  /\ raised = [t \in Tiles |-> FALSE]
  /\ host = NoHost
  /\ HeapOff

Grid ==
  <<x_size, y_size, kernel, program, devs, ndebug, lookup, Heap, probe>>

Host == <<Grid, future_work, run_pc, run_i, raised, host>>

Locks == <<value, owner, waiting, held, call>>

\* single_task() that refuses only while the work is executing
single_task_IfExecuting(t) ==
  IF future_work[t] = "valid" /\ ip[t] <= Len(program[t])
  THEN /\ host' = [op |-> "single_task", tile |-> t, outcome |-> "logic_error"]
       /\ UNCHANGED <<future_work, ip, raised>>
  ELSE /\ future_work' = [future_work EXCEPT ![t] = "valid"]
       /\ ip' = [ip EXCEPT ![t] = 0]
       /\ raised' = [raised EXCEPT ![t] = FALSE]
       /\ host' = [op |-> "single_task", tile |-> t, outcome |-> "ok"]

\* single_task() that joins the work the tile is running
single_task_Joining(t) ==
  /\ future_work[t] = "valid" => ip[t] > Len(program[t])
  /\ future_work' = [future_work EXCEPT ![t] = "valid"]
  /\ ip' = [ip EXCEPT ![t] = 0]
  /\ raised' = [raised EXCEPT ![t] = FALSE]
  /\ host' = [op |-> "single_task", tile |-> t, outcome |-> "ok"]

\* single_task() without the test of future_work.valid()
single_task_Unchecked(t) ==
  /\ future_work' = [future_work EXCEPT ![t] = "valid"]
  /\ ip' = [ip EXCEPT ![t] = 0]
  /\ raised' = [raised EXCEPT ![t] = FALSE]
  /\ host' = [op |-> "single_task", tile |-> t, outcome |-> "ok"]

\* tile_infrastructure::single_task(): throws std::logic_error when
\* future_work is valid, else launches the work on a new executor
single_task(t) ==
  IF future_work[t] = "valid"
  THEN /\ host' = [op |-> "single_task", tile |-> t, outcome |-> "logic_error"]
       /\ UNCHANGED <<future_work, ip, raised>>
  ELSE /\ future_work' = [future_work EXCEPT ![t] = "valid"]
       /\ ip' = [ip EXCEPT ![t] = 0]
       /\ raised' = [raised EXCEPT ![t] = FALSE]
       /\ host' = [op |-> "single_task", tile |-> t, outcome |-> "ok"]

\* run() that starts to join after the last but one submission
RunSubmit_SkipsLast ==
  /\ run_pc = "submit"
  /\ single_task(run_i)
  /\ IF host'.outcome # "ok"
     THEN run_pc' = "threw" /\ UNCHANGED run_i
     ELSE IF run_i + 2 < x_size * y_size
          THEN run_i' = run_i + 1 /\ UNCHANGED run_pc
          ELSE run_i' = 0 /\ run_pc' = "wait"
  /\ UNCHANGED <<Grid, Locks>>

\* program::run() launches the next tile; an exception ends run()
RunSubmit ==
  /\ run_pc = "submit"
  /\ single_task(run_i)
  /\ IF host'.outcome # "ok"
     THEN run_pc' = "threw" /\ UNCHANGED run_i
     ELSE IF run_i + 1 < x_size * y_size
          THEN run_i' = run_i + 1 /\ UNCHANGED run_pc
          ELSE run_i' = 0 /\ run_pc' = "wait"
  /\ UNCHANGED <<Grid, Locks>>

\* The work submitted to tile t is over: future_work is ready
Ready(t) == future_work[t] = "valid" /\ Returned(t)

\* wait() that calls future_work.get() without testing valid(): get() of a
\* future with no shared state raises
wait_Unguarded(t) ==
  /\ future_work[t] = "valid" => Ready(t)
  /\ future_work' = [future_work EXCEPT ![t] = "invalid"]
  /\ host' = [op |-> "wait", tile |-> t,
              outcome |-> IF future_work[t] = "invalid" \/ raised[t]
                          THEN "failure" ELSE "ok"]
  /\ UNCHANGED <<ip, raised>>

\* wait() that leaves the future valid when the work has raised
wait_KeepsFailed(t) ==
  /\ future_work[t] = "valid" => Ready(t)
  /\ future_work' = [future_work EXCEPT ![t] =
                       IF future_work[t] = "valid" /\ raised[t]
                       THEN "valid" ELSE "invalid"]
  /\ host' = [op |-> "wait", tile |-> t,
              outcome |-> IF future_work[t] = "valid" /\ raised[t]
                          THEN "failure" ELSE "ok"]
  /\ UNCHANGED <<ip, raised>>

\* tile_infrastructure::wait(): future_work.get() of a valid future blocks
\* until it is ready, makes it invalid and throws the exception of the work
wait(t) ==
  /\ future_work[t] = "valid" => Ready(t)
  /\ future_work' = [future_work EXCEPT ![t] = "invalid"]
  /\ host' = [op |-> "wait", tile |-> t,
              outcome |-> IF future_work[t] = "valid" /\ raised[t]
                          THEN "failure" ELSE "ok"]
  /\ UNCHANGED <<ip, raised>>

\* program::wait() joins the next tile; an exception ends the loop and run()
RunWait ==
  /\ run_pc = "wait"
  /\ wait(run_i)
  /\ IF host'.outcome # "ok"
     THEN run_pc' = "threw" /\ UNCHANGED run_i
     ELSE IF run_i + 1 < x_size * y_size
          THEN run_i' = run_i + 1 /\ UNCHANGED run_pc
          ELSE run_i' = 0 /\ run_pc' = "returned"
  /\ UNCHANGED <<Grid, Locks>>

\* The kernel of tile t calls its barrier
Enter(t) ==
  /\ future_work[t] = "valid"
  /\ ip[t] = 0
  /\ ip' = [ip EXCEPT ![t] = 1]
  /\ UNCHANGED <<Host, Locks>>

\* Tile t starts the next lock operation of its barrier
Step(t) ==
  /\ ip[t] \in 1 .. Len(program[t])
  /\ LET c == program[t][ip[t]]
     IN CASE c.op = "acquire_with_value" ->
               acquire_with_value(t, c.dev, c.val)
          [] c.op = "release_with_value" ->
               release_with_value(t, c.dev, c.val)
          [] c.op = "compute" ->
               /\ call[t].at = "done"
               /\ Advance(t)
               /\ UNCHANGED Locks
  /\ UNCHANGED Host

\* Tile t goes on with the lock operation it is executing
Go(t) ==
  /\ Lock(t) \/ Notify(t)
  /\ UNCHANGED Host

Next ==
  \/ RunSubmit
  \/ RunWait
  \/ \E t \in Tiles : Enter(t)
  \/ \E t \in Tiles : Step(t)
  \/ \E t \in Tiles : Go(t)

Spec == Init /\ [][Next]_vars

\* Every tile calls barrier(), horizontal_barrier(), vertical_barrier()
BarrierInit == Init /\ kernel = "barrier"

HorizontalInit == Init /\ kernel = "horizontal_barrier"

VerticalInit == Init /\ kernel = "vertical_barrier"

BarrierSpec == BarrierInit /\ [][Next]_vars

HorizontalSpec == HorizontalInit /\ [][Next]_vars

VerticalSpec == VerticalInit /\ [][Next]_vars

\* The tiles and the host are scheduled as long as one of them can run
FairBarrierSpec == BarrierSpec /\ WF_vars(Next)

FairHorizontalSpec == HorizontalSpec /\ WF_vars(Next)

----------------------------------------------------------------------------
(* The lock unit used directly: the contexts, which are the tiles of a
   column, call the operations of some locking devices of the first two
   memory modules in any order.  A context calls release() on the devices
   it has acquired, and no other operation on them: unlocking a mutex the
   context has not locked, and locking again a mutex it has locked, are
   errors of the caller. *)

\* The sets of locking devices the contexts use: one device, two devices of
\* a memory module, a device of each of two memory modules
LockDevSets ==
  {{<<1, horizontal_lock>>},
   {<<1, horizontal_lock>>, <<1, vertical_lock>>},
   {<<1, horizontal_lock>>, <<0, horizontal_lock>>}}

LockInit ==
  /\ x_size = 1
  /\ y_size \in 2 .. MaxCtx
  /\ devs \in {s \in LockDevSets : y_size * Cardinality(s) <= MaxLockUse}
  /\ kernel = "locks"
  /\ value = [m \in Tiles |-> [i \in LockIds |-> FALSE]]
  /\ owner = [m \in Tiles |-> [i \in LockIds |-> NoCtx]]
  /\ waiting = [m \in Tiles |-> [i \in LockIds |-> {}]]
  /\ held = [t \in Tiles |-> {}]
  /\ call = [t \in Tiles |-> NoCall]
  /\ ip = [t \in Tiles |-> 0]
  /\ future_work = [t \in Tiles |-> "valid"]
  /\ run_pc = "wait"
  /\ run_i = 0
  /\ program = [t \in Tiles |-> <<>>]
  /\ ndebug = FALSE
  /\ lookup = NoLookup
  /\ probe = NoProbe
  /\ raised = [t \in Tiles |-> FALSE]
  /\ host = NoHost
  /\ HeapOff

Acquire(t, d) == d \notin held[t] /\ acquire(t, d) /\ UNCHANGED Host

Release(t, d) == release(t, d) /\ UNCHANGED Host

AcquireWithValue(t, d, v) ==
  d \notin held[t] /\ acquire_with_value(t, d, v) /\ UNCHANGED Host

ReleaseWithValue(t, d, v) ==
  d \notin held[t] /\ release_with_value(t, d, v) /\ UNCHANGED Host

LockNext ==
  \/ \E t \in Tiles, d \in devs : Acquire(t, d)
  \/ \E t \in Tiles, d \in devs : Release(t, d)
  \/ \E t \in Tiles, d \in devs, v \in BOOLEAN : AcquireWithValue(t, d, v)
  \/ \E t \in Tiles, d \in devs, v \in BOOLEAN : ReleaseWithValue(t, d, v)
  \/ \E t \in Tiles : Go(t)

LockSpec == LockInit /\ [][LockNext]_vars

CtxIds == 0 .. MaxCtx - 1

OneLockInit == LockInit /\ Cardinality(devs) = 1

\* The contexts use one locking device. A context in an operation goes on
\* and is not overtaken for ever by the other contexts locking the mutex,
\* and a context that has locked the mutex with acquire() unlocks it
FairLockSpec ==
  /\ OneLockInit
  /\ [][LockNext]_vars
  /\ \A t \in CtxIds : SF_vars(t \in Tiles /\ Go(t))
  /\ \A t \in CtxIds : WF_vars(t \in Tiles /\ \E d \in devs : Release(t, d))

----------------------------------------------------------------------------
(* The barriers *)

Row(y) == {t \in Tiles : Y(t) = y}

Column(x) == {t \in Tiles : X(t) = x}

AllEntered(ts) == \A u \in ts : Entered(u)

\* C1: with every tile calling barrier(), no tile returns from barrier()
\* before every tile of the grid has entered barrier()
C1_BarrierHoldsAll ==
  kernel = "barrier" =>
    \A t \in Tiles : Returned(t) => AllEntered(Tiles)

\* On a grid of several rows and columns a tile has returned from
\* barrier() and another has not yet
C1_Witness ==
  /\ kernel = "barrier" /\ x_size >= 2 /\ y_size >= 2
  /\ \E t, u \in Tiles : Returned(t) /\ ~Returned(u)

\* C2: when run() starts on every tile a kernel that calls barrier() once,
\* every tile returns from barrier() and run() returns, whatever the order
\* of the steps, as long as a step that can be taken is taken
C2_RunReturns ==
  kernel = "barrier" =>
    <>(run_pc = "returned" /\ \A t \in Tiles : Returned(t))

\* run() has returned on the 2 x 3 grid
C2_Witness ==
  /\ kernel = "barrier" /\ x_size = 2 /\ y_size = 3
  /\ run_pc = "returned"
  /\ \A t \in Tiles : Returned(t)

\* C3: with every tile calling horizontal_barrier() once, every call
\* returns, on rows of either parity and of any width
C3_HorizontalReturns ==
  kernel = "horizontal_barrier" => <>(\A t \in Tiles : Returned(t))

\* The tiles of an even row and of an odd row of width 2 have returned
C3_Witness ==
  /\ kernel = "horizontal_barrier" /\ x_size >= 2 /\ y_size >= 2
  /\ \A t \in Tiles : Returned(t)

\* C4: in a row of width 2 or more, no tile returns from
\* horizontal_barrier() before every tile of the row has entered it
C4_HorizontalHoldsRow ==
  (kernel = "horizontal_barrier" /\ x_size >= 2) =>
    \A t \in Tiles : Returned(t) => AllEntered(Row(Y(t)))

\* A tile has returned from horizontal_barrier() while a tile of another
\* row has not entered it
C4_Witness ==
  /\ kernel = "horizontal_barrier" /\ x_size >= 2
  /\ \E t, u \in Tiles : Returned(t) /\ Y(u) # Y(t) /\ ~Entered(u)

\* C5: in a column of height 2 or more, no tile returns from
\* vertical_barrier() before every tile of the column has entered it
C5_VerticalHoldsColumn ==
  (kernel = "vertical_barrier" /\ y_size >= 2) =>
    \A t \in Tiles : Returned(t) => AllEntered(Column(X(t)))

\* A tile has returned from vertical_barrier() while a tile of another
\* column has not entered it
C5_Witness ==
  /\ kernel = "vertical_barrier" /\ y_size >= 2
  /\ \E t, u \in Tiles : Returned(t) /\ X(u) # X(t) /\ ~Entered(u)

----------------------------------------------------------------------------
(* The direction of horizontal_barrier() *)

\* The tiles of grid place (dx, 0) from tile t
East(t, u) == Y(u) = Y(t) /\ X(u) = X(t) + 1

West(t, u) == Y(u) = Y(t) /\ X(u) = X(t) - 1

\* Tile t is in release_with_value(v) of the lock of horizontal_barrier()
Signalling(t, v) ==
  /\ call[t].op = "release_with_value"
  /\ call[t].at = "notify"
  /\ call[t].val = v
  /\ call[t].dev[2] = horizontal_lock

\* The tiles whose program waits for value v of device d
Receivers(d, v) ==
  {u \in Tiles : \E k \in 1 .. Len(program[u]) :
                   program[u][k] = Awv(d[1], d[2], v)}

\* The value tile t is releasing goes to its neighbour on the East, West
GoesEast(t) ==
  LET r == Receivers(call[t].dev, call[t].val)
  IN r # {} /\ \A u \in r : East(t, u)

GoesWest(t) ==
  LET r == Receivers(call[t].dev, call[t].val)
  IN r # {} /\ \A u \in r : West(t, u)

\* C6 as claimed: in horizontal_barrier() the ready token goes from West to
\* East and the acknowledgement from East to West on even rows, and the
\* other way round on odd rows
C6_EvenRowsWestToEast ==
  \A t \in Tiles :
    /\ Signalling(t, TRUE) => IF Odd(Y(t)) THEN GoesWest(t) ELSE GoesEast(t)
    /\ Signalling(t, FALSE) => IF Odd(Y(t)) THEN GoesEast(t) ELSE GoesWest(t)

\* C6 as amended: in horizontal_barrier() the ready token goes from West to
\* East and the acknowledgement from East to West on odd rows, and the
\* other way round on even rows
C6_OddRowsWestToEast ==
  \A t \in Tiles :
    /\ Signalling(t, TRUE) => IF Odd(Y(t)) THEN GoesEast(t) ELSE GoesWest(t)
    /\ Signalling(t, FALSE) => IF Odd(Y(t)) THEN GoesWest(t) ELSE GoesEast(t)

\* A tile of an odd row passes the token while a tile of an even row
\* acknowledges
C6_Witness ==
  \E t, u \in Tiles :
    /\ Odd(Y(t)) /\ Signalling(t, TRUE)
    /\ ~Odd(Y(u)) /\ Signalling(u, FALSE)

----------------------------------------------------------------------------
(* The lock unit *)

\* Context t returns from acquire_with_value() in this step
AwvReturns(t) ==
  /\ call'[t] # call[t]
  /\ call'[t].op = "acquire_with_value"
  /\ call'[t].at = "done"

\* C7: acquire_with_value(expected) returns only while the stored value of
\* the device is the expected one
C7_ReturnsOnExpectation ==
  [][\A t \in Tiles :
       AwvReturns(t) =>
         /\ value[call'[t].dev[1]][call'[t].dev[2]] = call'[t].val
         /\ value'[call'[t].dev[1]][call'[t].dev[2]] = call'[t].val]_vars

\* A context that was blocked in acquire_with_value(TRUE) has returned
C7_Witness ==
  \E t \in Tiles :
    /\ call[t].op = "acquire_with_value" /\ call[t].at = "done"
    /\ call[t].val = TRUE /\ Value(call[t].dev) = TRUE

TheLockDev == <<1, horizontal_lock>>

\* Context t is in acquire_with_value() of device d
InAwv(t, d) ==
  /\ t \in Tiles
  /\ call[t].op = "acquire_with_value"
  /\ call[t].dev = d

\* Context t is blocked in acquire_with_value(v) of device d, and a context
\* has set the value of d to v and is about to notify
Released(t, d) ==
  /\ InAwv(t, d)
  /\ call[t].at = "wait"
  /\ Value(d) = call[t].val
  /\ \E r \in Tiles : call[r] = [op |-> "release_with_value", dev |-> d,
                                  val |-> call[t].val, at |-> "notify"]

HasReturned(t, d) == InAwv(t, d) /\ call[t].at = "done"

\* The value of d is no more the one context t waits for
ChangedAgain(t, d) ==
  InAwv(t, d) /\ call[t].at # "done" /\ Value(d) # call[t].val

\* C8 as claimed: a context blocked in acquire_with_value(v) returns once
\* another context has called release_with_value(v), unless the value is
\* changed again
C8_WaiterReturns ==
  \A t \in CtxIds :
    Released(t, TheLockDev)
      ~> (HasReturned(t, TheLockDev) \/ ChangedAgain(t, TheLockDev))

\* C8 as amended: the same of a context that is the only one blocked on
\* the device
C8_SoleWaiterReturns ==
  \A t \in CtxIds :
    (Released(t, TheLockDev) /\ Waiting(TheLockDev) = {t})
      ~> \/ HasReturned(t, TheLockDev)
         \/ ChangedAgain(t, TheLockDev)
         \/ Waiting(TheLockDev) \ {t} # {}

\* A context has set the value that the only blocked context waits for
C8_Witness ==
  \E t \in Tiles :
    Released(t, TheLockDev) /\ Waiting(TheLockDev) = {t}

\* C9: the value of every locking device is false at first and changes
\* only in release_with_value(new_value), to new_value; the steps of
\* acquire(), release() and acquire_with_value() leave it as it is, and a
\* context that returns from acquire_with_value() does not own the mutex
C9_OnlyReleaseWithValueSets ==
  /\ \A m \in Tiles : \A i \in LockIds : value[m][i] = FALSE
  /\ [][/\ \A m \in Tiles : \A i \in LockIds :
            value'[m][i] # value[m][i] =>
              \E t \in Tiles :
                /\ call[t].at \in {"done", "lock"}
                /\ call'[t] = [op |-> "release_with_value",
                               dev |-> <<m, i>>, val |-> value'[m][i],
                               at |-> "notify"]
                /\ \A u \in Tiles \ {t} : call'[u] = call[u]
                /\ owner' = owner /\ held' = held /\ waiting' = waiting
        /\ \A t \in Tiles :
            AwvReturns(t) =>
              owner'[call'[t].dev[1]][call'[t].dev[2]] # t]_vars

\* A device acquired by a context holds TRUE, and another context has
\* returned from acquire_with_value() on it
C9_Witness ==
  \E t, u \in Tiles, d \in devs :
    /\ Value(d) = TRUE
    /\ d \in held[t]
    /\ call[u].op = "acquire_with_value" /\ call[u].at = "done"
    /\ call[u].dev = d

\* C10: at most one context is between its acquire() of a locking device
\* and its release() of the device
C10_MutualExclusion ==
  \A d \in devs : Cardinality({t \in Tiles : d \in held[t]}) <= 1

\* A context has acquired a device and another is blocked in acquire()
C10_Witness ==
  \E t, u \in Tiles, d \in devs :
    /\ d \in held[t]
    /\ call[u] = [op |-> "acquire", dev |-> d, val |-> FALSE, at |-> "lock"]

----------------------------------------------------------------------------
(* The independence of the locking devices *)

\* The state of locking device lock of memory module m
DevState(m, lock) == <<value[m][lock], owner[m][lock], waiting[m][lock]>>

\* The locking device of the operation of which context t takes a step
Operated(t) ==
  IF held'[t] # held[t]
  THEN CHOOSE d \in (held'[t] \ held[t]) \cup (held[t] \ held'[t]) : TRUE
  ELSE IF call'[t].op # "none" THEN call'[t].dev ELSE call[t].dev

\* Context t takes the step
Acts(t) == call'[t] # call[t] \/ held'[t] # held[t]

\* C11: a step of an operation on a locking device changes the value, the
\* owner of the mutex and the blocked contexts of no other locking device,
\* of the same memory module or of another, and an operation blocks only
\* on the mutex or the value of its own locking device
C11_DevicesIndependent ==
  [][\A t \in Tiles :
       Acts(t) =>
         /\ \A m \in Tiles : \A i \in LockIds :
              <<m, i>> # Operated(t) =>
                DevState(m, i)' = DevState(m, i)
         /\ (call'[t].at = "lock" /\ call[t].at = "done") =>
              owner[call'[t].dev[1]][call'[t].dev[2]] # NoCtx
         /\ (call'[t].at = "wait" /\ call[t].at # "wait") =>
              value[call'[t].dev[1]][call'[t].dev[2]] # call'[t].val]_vars

\* A context that has acquired a locking device sets the value of another
\* locking device of the memory module, which a context waits for
C11_Witness ==
  \E t, u \in Tiles :
    /\ <<1, horizontal_lock>> \in held[t]
    /\ call[t].op = "release_with_value" /\ call[t].at = "notify"
    /\ call[t].dev = <<1, vertical_lock>>
    /\ call[u] = [op |-> "acquire_with_value", dev |-> <<1, vertical_lock>>,
                  val |-> TRUE, at |-> "wait"]

----------------------------------------------------------------------------
(* lock_unit::lock(i) *)

\* What the read of locks[i] out of the array may do in a build without
\* the assertion: undefined behaviour, which yields a reference that is no
\* locking device of the lock unit, or stops the program
OutOfArray == {"wild", "crash"}

\* The outcomes of lock(i) on the lock unit of memory module m: locking
\* device i, or the failure of assert(0 <= i && i < lock_number)
lock(m, i) ==
  IF 0 <= i /\ i < lock_number THEN {"device"}
  ELSE IF ~ndebug THEN {"assertion"}
  ELSE OutOfArray

\* A program stopped by an assertion or a crash calls nothing more
Stopped == lookup.outcome \in {"assertion", "crash"}

LookupBuilds ==
  /\ x_size = 1 /\ y_size = MaxCtx
  /\ devs = {<<1, horizontal_lock>>}
  /\ kernel = "locks"
  /\ value = [m \in Tiles |-> [i \in LockIds |-> FALSE]]
  /\ owner = [m \in Tiles |-> [i \in LockIds |-> NoCtx]]
  /\ waiting = [m \in Tiles |-> [i \in LockIds |-> {}]]
  /\ held = [t \in Tiles |-> {}]
  /\ call = [t \in Tiles |-> NoCall]
  /\ ip = [t \in Tiles |-> 0]
  /\ future_work = [t \in Tiles |-> "valid"]
  /\ run_pc = "wait"
  /\ run_i = 0
  /\ program = [t \in Tiles |-> <<>>]
  /\ ndebug \in BOOLEAN
  /\ lookup = NoLookup
  /\ probe = NoProbe
  /\ raised = [t \in Tiles |-> FALSE]
  /\ host = NoHost
  /\ HeapOff

\* memory_infrastructure::lock(i) of memory module m
Lookup(m, i) ==
  /\ ~Stopped
  /\ \E o \in lock(m, i) : lookup' = [unit |-> m, i |-> i, outcome |-> o]
  /\ UNCHANGED <<x_size, y_size, kernel, program, devs, ndebug, value, owner,
                 waiting, held, call, ip, future_work, run_pc, run_i, raised,
                 host, Heap, probe>>

LookupNext ==
  \E m \in Tiles, i \in -MaxBeyond .. lock_number - 1 + MaxBeyond :
    Lookup(m, i)

LookupSpec == LookupBuilds /\ [][LookupNext]_vars

\* C12: lock(i) yields locking device i for 0 <= i <= 15, and for the other
\* i fails at the call, with an assertion, and yields nothing
C12_LockChecksRange ==
  lookup.outcome # "none" =>
    IF 0 <= lookup.i /\ lookup.i <= 15
    THEN lookup.outcome = "device"
    ELSE lookup.outcome = "assertion"

----------------------------------------------------------------------------
(* The waits of the lock unit have no timeout *)

\* Every context is blocked in cv->wait()
AllBlocked == \A t \in Tiles : call[t].at = "wait"

\* Context r ends release_with_value() on the locking device d in the step
Notifies(r, d) ==
  /\ call[r].op = "release_with_value"
  /\ call[r].at = "notify"
  /\ call[r].dev = d
  /\ call'[r] = NoCall

\* C13: a context blocked in acquire_with_value() is unblocked only by the
\* notification of a release_with_value() on its locking device, and then
\* returns only if the value is the one it waits for and else blocks again;
\* when every context is blocked, no step is possible and they stay blocked
C13_NoTimeout ==
  /\ [](AllBlocked => ~ENABLED LockNext)
  /\ [][/\ \A t \in Tiles :
            (call[t].at = "wait" /\ call'[t] # call[t]) =>
              /\ call'[t] = [call[t] EXCEPT !.at = "lock"]
              /\ \E r \in Tiles \ {t} : Notifies(r, call[t].dev)
        /\ \A t \in Tiles :
            (call[t].op = "acquire_with_value" /\ call[t].at = "lock"
               /\ call'[t] # call[t]) =>
              call'[t].at = IF Value(call[t].dev) = call[t].val
                            THEN "done" ELSE "wait"
        /\ AllBlocked => AllBlocked']_vars

\* Every context is blocked, two of them on the same locking device,
\* waiting for the value it does not hold
C13_Witness ==
  /\ AllBlocked
  /\ \E t, u \in Tiles :
       /\ t # u /\ call[t].dev = call[u].dev
       /\ Value(call[t].dev) # call[t].val

----------------------------------------------------------------------------
(* The life of the work of a tile: the host calls single_task() and wait()
   of the tiles in any order, and the work of a tile ends normally or with
   an exception *)

TileInit ==
  /\ x_size = 1
  /\ y_size \in 1 .. MaxCtx
  /\ kernel = "work"
  /\ value = [m \in Tiles |-> [i \in LockIds |-> FALSE]]
  /\ owner = [m \in Tiles |-> [i \in LockIds |-> NoCtx]]
  /\ waiting = [m \in Tiles |-> [i \in LockIds |-> {}]]
  /\ held = [t \in Tiles |-> {}]
  /\ call = [t \in Tiles |-> NoCall]
  /\ ip = [t \in Tiles |-> 0]
  /\ future_work = [t \in Tiles |-> "invalid"]
  /\ run_pc = "idle"
  /\ run_i = 0
  /\ program = [t \in Tiles |-> <<>>]
  /\ devs = {}
  /\ ndebug = FALSE
  /\ lookup = NoLookup
  /\ probe = NoProbe
  /\ raised = [t \in Tiles |-> FALSE]
  /\ host = NoHost
  /\ HeapOff

\* The tile has work submitted that is not over
Running(t) == future_work[t] = "valid" /\ ~Returned(t)

SingleTask(t) == single_task(t) /\ UNCHANGED <<Grid, Locks, run_pc, run_i>>

Wait(t) == wait(t) /\ UNCHANGED <<Grid, Locks, run_pc, run_i>>

\* An exception in the work of a tile that ends the work of every tile
Fail_Abort(t) ==
  /\ Running(t)
  /\ call[t].at = "done"
  /\ raised' = [u \in Tiles |-> raised[u] \/ Running(u)]
  /\ ip' = [u \in Tiles |-> IF Running(u) THEN Len(program[u]) + 1 ELSE ip[u]]
  /\ UNCHANGED <<Grid, Locks, future_work, run_pc, run_i, host>>

\* The work of tile t ends with an exception, which its future keeps
Fail(t) ==
  /\ Running(t)
  /\ call[t].at = "done"
  /\ raised' = [raised EXCEPT ![t] = TRUE]
  /\ ip' = [ip EXCEPT ![t] = Len(program[t]) + 1]
  /\ UNCHANGED <<Grid, Locks, future_work, run_pc, run_i, host>>

TileNext ==
  \/ \E t \in Tiles : SingleTask(t)
  \/ \E t \in Tiles : Wait(t)
  \/ \E t \in Tiles : Enter(t)
  \/ \E t \in Tiles : Fail(t)

TileSpec == TileInit /\ [][TileNext]_vars

\* The step is a call of operation op on tile t by the host
HostCalls(op, t) == host' # host /\ host'.op = op /\ host'.tile = t

\* C15: single_task() on a tile with work submitted and not joined throws
\* logic_error, starts nothing and leaves the work and its future as they
\* are; work is started only on a tile with no work submitted
C15_AlreadyRunning ==
  [][\A t \in Tiles :
       HostCalls("single_task", t) =>
         IF future_work[t] = "valid"
         THEN /\ host'.outcome = "logic_error"
              /\ future_work' = future_work
              /\ ip' = ip
              /\ raised' = raised
         ELSE host'.outcome = "ok"]_vars

\* single_task() has thrown on a tile whose work is not over
C15_Witness ==
  \E t \in Tiles :
    /\ host = [op |-> "single_task", tile |-> t, outcome |-> "logic_error"]
    /\ Running(t)

\* C16: wait() on a tile with work submitted returns only when the work is
\* over, with the failure the work raised if any; once wait() has returned
\* the tile holds no work, and the next single_task() on it succeeds and
\* starts the new work
C16_WaitJoins ==
  /\ [](host.op = "wait" => future_work[host.tile] = "invalid")
  /\ [][\A t \in Tiles :
          /\ HostCalls("wait", t) /\ future_work[t] = "valid" =>
                /\ Returned(t)
                /\ host'.outcome = IF raised[t] THEN "failure" ELSE "ok"
          /\ HostCalls("single_task", t) /\ host.op = "wait" /\ host.tile = t =>
                /\ host'.outcome = "ok"
                /\ future_work'[t] = "valid"
                /\ Running(t)']_vars

\* wait() has returned with the failure of the work and the tile is idle
C16_Witness ==
  /\ host.op = "wait"
  /\ host.outcome = "failure"
  /\ future_work[host.tile] = "invalid"

\* The state of the work of tile u is left as it is by the step
SameWork(u) ==
  /\ future_work'[u] = future_work[u]
  /\ ip'[u] = ip[u]
  /\ raised'[u] = raised[u]

\* C17: the failure of the work of a tile changes nothing of the work of the
\* other tiles and is thrown by the wait() of that tile only: the wait() of
\* a tile whose own work ended normally returns normally, whatever the
\* other tiles did
C17_FailureStaysOnTile ==
  /\ [](\A u \in CtxIds :
          u \in Tiles /\ Ready(u) /\ ~raised[u] =>
            ENABLED (Wait(u) /\ host'.outcome = "ok"))
  /\ [][\A t \in Tiles :
          /\ raised'[t] /\ ~raised[t] => \A u \in Tiles \ {t} : SameWork(u)
          /\ HostCalls("wait", t) /\ host'.outcome = "failure" =>
                /\ raised[t]
                /\ \A u \in Tiles \ {t} : SameWork(u)]_vars

\* The wait() of a tile has returned normally while the failure of another
\* tile is not joined
C17_Witness ==
  \E t, u \in Tiles :
    /\ t # u
    /\ raised[t] /\ future_work[t] = "valid"
    /\ host = [op |-> "wait", tile |-> u, outcome |-> "ok"]
    /\ ip[u] > 0

----------------------------------------------------------------------------
(* run() on a grid whose works end normally or with an exception *)

WorkInit ==
  /\ \E g \in Grids : x_size = g[1] /\ y_size = g[2]
  /\ kernel = "work"
  /\ value = [m \in Tiles |-> [i \in LockIds |-> FALSE]]
  /\ owner = [m \in Tiles |-> [i \in LockIds |-> NoCtx]]
  /\ waiting = [m \in Tiles |-> [i \in LockIds |-> {}]]
  /\ held = [t \in Tiles |-> {}]
  /\ call = [t \in Tiles |-> NoCall]
  /\ ip = [t \in Tiles |-> 0]
  /\ future_work = [t \in Tiles |-> "invalid"]
  /\ run_pc = "submit"
  /\ run_i = 0
  /\ program = [t \in Tiles |-> <<>>]
  /\ devs = {}
  /\ ndebug = FALSE
  /\ lookup = NoLookup
  /\ probe = NoProbe
  /\ raised = [t \in Tiles |-> FALSE]
  /\ host = NoHost
  /\ HeapOff

WorkNext ==
  \/ RunSubmit
  \/ RunWait
  \/ \E t \in Tiles : Enter(t)
  \/ \E t \in Tiles : Fail(t)

WorkSpec == WorkInit /\ [][WorkNext]_vars

\* run() is over, by a return or by an exception
RunOver == run_pc \in {"returned", "threw"}

\* C18: when run() is over, normally or with a failure, no tile is running
C18_RunJoinsAll == RunOver => \A t \in Tiles : ~Running(t)

\* C19: run() submits to the tiles one after the other, each once, and
\* calls the first wait() after the submission to the last tile: at every
\* wait() the tiles not joined yet all have their work submitted
C19_SubmitsAllThenJoins ==
  /\ [](run_pc = "submit" =>
          \A t \in 0 .. MaxTiles - 1 :
            t \in Tiles => (future_work[t] = "valid" <=> t < run_i))
  /\ [][/\ \A t \in Tiles :
             /\ HostCalls("single_task", t) =>
                   /\ run_pc = "submit" /\ t = run_i
                   /\ host'.outcome = "ok"
                   /\ future_work[t] = "invalid" /\ future_work'[t] = "valid"
             /\ HostCalls("wait", t) =>
                   /\ run_pc = "wait" /\ t = run_i
                   /\ \A u \in Tiles : u >= t => future_work[u] = "valid"
          /\ run_pc = "submit" /\ run_pc' # "submit" =>
                /\ run_i = x_size * y_size - 1
                /\ run_pc' = "wait"
                /\ \A u \in Tiles : future_work'[u] = "valid"]_vars

\* run() on a grid of several tiles has submitted to the last tile and has
\* joined none
C19_Witness ==
  /\ x_size * y_size > 1
  /\ run_pc = "wait" /\ run_i = 0
  /\ host = [op |-> "single_task", tile |-> x_size * y_size - 1,
             outcome |-> "ok"]
  /\ \A t \in Tiles : future_work[t] = "valid"

----------------------------------------------------------------------------
(* The allocator of a tile, device_allocator.hpp *)

min_alloc_size == 8
alloc_align == 4
\* sizeof(block_header): a 32 bit stable_pointer and a 32 bit word of fields
sizeof_block_header == 8
\* sizeof(allocator_global): one stable_pointer
sizeof_allocator_global == 4
\* The largest value of the 31 bit field block_header::size
size_max == 2147483647

\* The value a 31 bit unsigned field keeps of x, for -2^31 <= x < 2^31
Field31(x) == IF x < 0 THEN (x + size_max) + 1 ELSE x

\* A 32 bit unsigned word w is kept as w when it is below 2^31 and as
\* w - 2^32 otherwise; the sum of two words, in 32 bits
Add32(a, b) ==
  IF a >= 0 /\ b >= 0 /\ a > size_max - b
  THEN ((a - size_max) + (b - size_max)) - 2
  ELSE IF a < 0 /\ b < 0 /\ a < ((-size_max) - 1) - b
       THEN ((a + size_max) + (b + size_max)) + 2
       ELSE a + b

\* a >= b between two 32 bit unsigned words
GE32(a, b) == IF (a < 0) = (b < 0) THEN a >= b ELSE a < 0

\* The blocks are records of the address of the header, the size of the
\* payload and the flag in_use; next is the successor in total_list
get_alloc(bh) == bh.addr + sizeof_block_header

get_end(bh) == bh.addr + sizeof_block_header + bh.size

is_splitable(bh, new_size) ==
  GE32(bh.size, Add32(Add32(new_size, sizeof_block_header), min_alloc_size))

\* block_header::split(): the block resized and the block made after it;
\* the size of the new block is computed from the size member after its
\* assignment, old_size is not used
split(bh, new_size) ==
  LET this == [bh EXCEPT !.size = Field31(new_size)]
      new_next == [addr |-> get_end(this),
                   size |-> Field31(this.size - new_size
                                    - sizeof_block_header),
                   in_use |-> FALSE]
  IN <<this, new_next>>

\* create_block() that takes the header for part of the payload
create_block_NoHeader(p, sz) ==
  [addr |-> p, size |-> Field31(sz), in_use |-> FALSE]

create_block(p, sz) ==
  [addr |-> p, size |-> Field31(sz - sizeof_block_header), in_use |-> FALSE]

\* The size extended to the next multiple of alloc_align
aligned(size) ==
  LET sz == Add32(size, alloc_align - 1) IN sz - (sz % alloc_align)

\* A search that returns the largest block that fits, the first of them
first_fit_Largest(size) ==
  LET fits == {i \in 1 .. Len(total_list) :
                 GE32(total_list[i].size, size) /\ ~total_list[i].in_use}
      largest == {i \in fits :
                    \A j \in fits : total_list[i].size >= total_list[j].size}
  IN IF fits = {} THEN 0 ELSE CHOOSE i \in largest : \A j \in largest : i <= j

\* A search that returns the last block that fits
first_fit_Last(size) ==
  LET fits == {i \in 1 .. Len(total_list) :
                 GE32(total_list[i].size, size) /\ ~total_list[i].in_use}
  IN IF fits = {} THEN 0 ELSE CHOOSE i \in fits : \A j \in fits : i >= j

\* The position in total_list of the block the loop of try_malloc() stops
\* at, 0 when it reaches the end of the list
first_fit(size) ==
  LET fits == {i \in 1 .. Len(total_list) :
                 GE32(total_list[i].size, size) /\ ~total_list[i].in_use}
  IN IF fits = {} THEN 0 ELSE CHOOSE i \in fits : \A j \in fits : i <= j

\* The list after try_malloc(size) and the pointer returned
try_malloc(size) ==
  LET sz == aligned(size)
      i == first_fit(sz)
  IN IF i = 0
     THEN [list |-> total_list, ptr |-> nullptr]
     ELSE LET bh == total_list[i]
              parts == IF is_splitable(bh, sz) THEN split(bh, sz) ELSE <<bh>>
          IN [list |-> SubSeq(total_list, 1, i - 1)
                         \o <<[parts[1] EXCEPT !.in_use = TRUE]>>
                         \o Tail(parts)
                         \o SubSeq(total_list, i + 1, Len(total_list)),
              ptr |-> get_alloc(bh)]

\* free() that clears the flag of every block
free_ClearsAll(p) ==
  [i \in 1 .. Len(total_list) |-> [total_list[i] EXCEPT !.in_use = FALSE]]

\* free() that leaves the block in use
free_Keeps(p) == total_list

\* free(p): the block whose payload is at p is not in use any more
free(p) ==
  [i \in 1 .. Len(total_list) |->
     IF get_alloc(total_list[i]) = p
     THEN [total_list[i] EXCEPT !.in_use = FALSE]
     ELSE total_list[i]]

\* The pointers returned and not freed
InUse == {get_alloc(total_list[i]) : i \in {j \in 1 .. Len(total_list) :
                                               total_list[j].in_use}}

HeapSizes == {alloc_align * n : n \in 6 .. MaxHeapWords}

\* The state after init_allocator() in the tile of a 1 x 1 grid
AllocInit ==
  /\ x_size = 1 /\ y_size = 1
  /\ kernel = "heap"
  /\ value = [m \in Tiles |-> [i \in LockIds |-> FALSE]]
  /\ owner = [m \in Tiles |-> [i \in LockIds |-> NoCtx]]
  /\ waiting = [m \in Tiles |-> [i \in LockIds |-> {}]]
  /\ held = [t \in Tiles |-> {}]
  /\ call = [t \in Tiles |-> NoCall]
  /\ ip = [t \in Tiles |-> 1]
  /\ future_work = [t \in Tiles |-> "valid"]
  /\ run_pc = "wait"
  /\ run_i = 0
  /\ program = [t \in Tiles |-> <<>>]
  /\ devs = {}
  /\ ndebug \in BOOLEAN
  /\ lookup = NoLookup
  /\ probe = NoProbe
  /\ raised = [t \in Tiles |-> FALSE]
  /\ host = NoHost
  /\ heap_size \in HeapSizes
  /\ total_list = <<create_block(sizeof_allocator_global, heap_size)>>
  /\ heap = NoHeap

\* What the allocator leaves as it is
NotHeap == <<x_size, y_size, kernel, program, devs, ndebug, lookup, Locks,
             ip, future_work, run_pc, run_i, raised, host, probe>>

\* The assertion of malloc() has ended the execution
Aborted == heap.outcome = "assertion"

TryMalloc(size) ==
  /\ ~Aborted
  /\ Len(total_list) < MaxBlocks
  /\ LET r == try_malloc(size)
     IN /\ total_list' = r.list
        /\ heap' = [op |-> "try_malloc", size |-> size, ptr |-> r.ptr,
                    outcome |-> "ok"]
  /\ UNCHANGED <<heap_size, NotHeap>>

\* malloc(): assert(ret != 0) ends the execution unless NDEBUG is defined
Malloc(size) ==
  /\ ~Aborted
  /\ Len(total_list) < MaxBlocks
  /\ LET r == try_malloc(size)
     IN /\ total_list' = r.list
        /\ heap' = [op |-> "malloc", size |-> size, ptr |-> r.ptr,
                    outcome |-> IF r.ptr = nullptr /\ ~ndebug
                                THEN "assertion" ELSE "ok"]
  /\ UNCHANGED <<heap_size, NotHeap>>

Free(p) ==
  /\ ~Aborted
  /\ p \in InUse
  /\ total_list' = free(p)
  /\ heap' = [op |-> "free", size |-> 0, ptr |-> p, outcome |-> "ok"]
  /\ UNCHANGED <<heap_size, NotHeap>>

AllocNext ==
  \/ \E size \in 0 .. MaxReq : TryMalloc(size)
  \/ \E size \in 0 .. MaxReq : Malloc(size)
  \/ \E p \in InUse : Free(p)

AllocSpec == AllocInit /\ [][AllocNext]_vars

\* The arena is as init_allocator() leaves it
Fresh ==
  /\ Len(total_list) = 1
  /\ total_list[1] = create_block(sizeof_allocator_global, heap_size)

\* The step is a call of try_malloc() or malloc() with this size
Allocates(size) ==
  /\ heap' # heap
  /\ heap'.op \in {"try_malloc", "malloc"}
  /\ heap'.size = size

\* C20: in a fresh arena an allocation of k bytes that leaves room for a
\* header and the minimum allocation makes two blocks: the first in use
\* with k rounded up to a multiple of 4, the second free with what is left
\* of the first block less one header
C20_SplitLeavesRemainder ==
  [][\A k \in 0 .. MaxReq :
       /\ Fresh
       /\ Allocates(k)
       /\ k + sizeof_block_header + min_alloc_size < total_list[1].size
       => /\ Len(total_list') = 2
          /\ total_list'[1].in_use
          /\ total_list'[1].size = aligned(k)
          /\ ~total_list'[2].in_use
          /\ total_list'[2].size =
               total_list[1].size - aligned(k) - sizeof_block_header]_vars

----------------------------------------------------------------------------
(* The works of two tiles use one locking device and the allocator of tile
   0 while the host submits and joins them *)

\* The tile whose arena is modelled
HeapTile == 0

UseInit ==
  /\ x_size = 1 /\ y_size = 2
  /\ devs = {TheLockDev}
  /\ kernel = "locks"
  /\ value = [m \in Tiles |-> [i \in LockIds |-> FALSE]]
  /\ owner = [m \in Tiles |-> [i \in LockIds |-> NoCtx]]
  /\ waiting = [m \in Tiles |-> [i \in LockIds |-> {}]]
  /\ held = [t \in Tiles |-> {}]
  /\ call = [t \in Tiles |-> NoCall]
  /\ ip = [t \in Tiles |-> 0]
  /\ future_work = [t \in Tiles |-> "valid"]
  /\ run_pc = "idle"
  /\ run_i = 0
  /\ program = [t \in Tiles |-> <<>>]
  /\ ndebug = FALSE
  /\ lookup = NoLookup
  /\ probe = NoProbe
  /\ raised = [t \in Tiles |-> FALSE]
  /\ host = NoHost
  /\ heap_size = alloc_align * MaxHeapWords
  /\ total_list = <<create_block(sizeof_allocator_global, heap_size)>>
  /\ heap = NoHeap

\* The work of tile t is executing and is not inside a lock operation
Able(t) == Running(t) /\ call[t].at = "done"

UseNext ==
  \/ \E t \in Tiles, d \in devs : Able(t) /\ Acquire(t, d)
  \/ \E t \in Tiles, d \in devs : Able(t) /\ Release(t, d)
  \/ \E t \in Tiles, d \in devs, v \in BOOLEAN :
       Able(t) /\ AcquireWithValue(t, d, v)
  \/ \E t \in Tiles, d \in devs, v \in BOOLEAN :
       Able(t) /\ ReleaseWithValue(t, d, v)
  \/ \E t \in Tiles : Go(t)
  \/ \E t \in Tiles : Able(t) /\ Enter(t)
  \/ \E t \in Tiles : SingleTask(t)
  \/ \E t \in Tiles : Wait(t)
  \/ Able(HeapTile) /\ TryMalloc(MaxReq)
  \/ \E p \in InUse : Able(HeapTile) /\ Free(p)

UseSpec == UseInit /\ [][UseNext]_vars

\* Context t is blocked: in cv->wait(), or in m->lock() with the mutex
\* locked
Suspended(t) ==
  \/ call[t].at = "wait"
  \/ call[t].at = "lock" /\ Owner(call[t].dev) # NoCtx

\* single_task(), release(), try_malloc() and free() complete whenever
\* they are called
CompleteAtOnce ==
  /\ \A t \in Tiles : ENABLED SingleTask(t)
  /\ \A t \in Tiles, d \in devs :
       Able(t) /\ d \in held[t] =>
         ENABLED (Release(t, d) /\ call'[t].at = "done")
  /\ Able(HeapTile) /\ Len(total_list) < MaxBlocks =>
       ENABLED TryMalloc(MaxReq)
  /\ Able(HeapTile) => \A p \in InUse : ENABLED Free(p)

\* C14 as stated: a context is blocked in acquire_with_value() only, and
\* single_task(), release(), try_malloc() and free() complete whenever
\* they are called
C14_OnlyAwvAndJoinSuspend ==
  /\ \A t \in Tiles :
       Suspended(t) => call[t].op = "acquire_with_value"
  /\ CompleteAtOnce

\* C14 amended: a context is blocked in acquire_with_value(), or in
\* acquire() or release_with_value() on a locking device another context
\* has locked with acquire(), and in no other call; wait() does not return
\* while the work it joins is running; single_task(), release(),
\* try_malloc() and free() complete whenever they are called
C14_SuspensionPoints ==
  /\ \A t \in Tiles :
       Suspended(t) =>
         \/ call[t].op = "acquire_with_value"
         \/ /\ call[t].op \in {"acquire", "release_with_value"}
            /\ call[t].at = "lock"
            /\ Owner(call[t].dev) \in Tiles \ {t}
            /\ call[t].dev \in held[Owner(call[t].dev)]
  /\ \A t \in Tiles : Running(t) => ~ENABLED Wait(t)
  /\ CompleteAtOnce

\* A context is blocked in release_with_value() while the other has
\* allocated and the host has called single_task()
C14_Witness ==
  \E t \in Tiles :
    /\ Suspended(t)
    /\ call[t].op = "release_with_value"
    /\ heap.op = "try_malloc"
    /\ host.op = "single_task"

----------------------------------------------------------------------------
(* The list of blocks and the arena *)

\* The arena is what init_allocator() gives to the first block, header
\* included
arena_begin == sizeof_allocator_global

arena_end == sizeof_allocator_global + heap_size

\* Block i ends where the next header, or else the end of the arena, is
EndsAt(i, address) ==
  total_list[i].size = address - total_list[i].addr - sizeof_block_header

\* C21: the blocks tile the arena: the first header is at its beginning,
\* every next header is at the end of the payload of the block before it
\* and the last payload ends at the end of the arena, so that the headers
\* and payloads add up to the size of the arena
C21_BlocksTileArena ==
  /\ Len(total_list) >= 1
  /\ total_list[1].addr = arena_begin
  /\ \A i \in 1 .. Len(total_list) - 1 : EndsAt(i, total_list[i + 1].addr)
  /\ EndsAt(Len(total_list), arena_end)

\* The step is free(p) called right after the allocation of size bytes
\* that has returned p
FreesAtOnce(size) ==
  /\ heap.op \in {"try_malloc", "malloc"}
  /\ heap.size = size
  /\ heap.ptr # nullptr
  /\ heap'.op = "free"
  /\ heap'.ptr = heap.ptr

\* C22: when an allocation that has succeeded is followed at once by
\* free() of its pointer, the allocation of the same size succeeds in the
\* state free() leaves
C22_RoundTrip ==
  [][\A size \in 0 .. MaxReq :
       FreesAtOnce(size) => (try_malloc(size).ptr # nullptr)']_vars

\* free() has been called right after an allocation that took the whole
\* of the only block
C22_Witness ==
  /\ heap.op = "free"
  /\ Len(total_list) = 1
  /\ heap.ptr = get_alloc(total_list[1])
  /\ ~total_list[1].in_use

\* The least multiple of the alignment that is not below size
RoundedUp(size) ==
  CHOOSE m \in size .. size + alloc_align - 1 : m % alloc_align = 0

\* Block i is free and large enough for size bytes
Fits(i, size) ==
  ~total_list[i].in_use /\ total_list[i].size >= RoundedUp(size)

\* C23: an allocation returns the payload of the first block of the list
\* that is free and has at least the aligned size; it returns the null
\* pointer exactly when no block is free with that size, and then the
\* list is unchanged
C23_FirstFit ==
  [][\A size \in 0 .. MaxReq :
       Allocates(size) =>
         IF \E i \in 1 .. Len(total_list) : Fits(i, size)
         THEN \E i \in 1 .. Len(total_list) :
                /\ Fits(i, size)
                /\ \A j \in 1 .. i - 1 : ~Fits(j, size)
                /\ heap'.ptr = get_alloc(total_list[i])
                /\ heap'.ptr # nullptr
                /\ total_list'[i].in_use
         ELSE /\ heap'.ptr = nullptr
              /\ total_list' = total_list]_vars

\* An allocation has returned the second block, the first one being free
\* and too small
C23_Witness ==
  /\ Len(total_list) >= 2
  /\ heap.op = "try_malloc"
  /\ heap.ptr = get_alloc(total_list[2])
  /\ ~total_list[1].in_use
  /\ total_list[1].size < heap.size

\* The step is a call of free(p)
Frees(p) ==
  /\ heap'.op = "free"
  /\ heap'.ptr = p
  /\ <<heap, total_list>>' # <<heap, total_list>>

\* C24: free(p) clears in_use of the block whose header is right before p
\* and changes nothing else: the blocks, their order, addresses and sizes
\* and the flags of the other blocks stay, free neighbours are not merged,
\* and no step makes the list shorter
C24_FreeOnlyClearsFlag ==
  [][/\ Len(total_list') >= Len(total_list)
     /\ \A p \in InUse :
          Frees(p) =>
            /\ Len(total_list') = Len(total_list)
            /\ \A i \in 1 .. Len(total_list) :
                 /\ total_list'[i].addr = total_list[i].addr
                 /\ total_list'[i].size = total_list[i].size
                 /\ total_list'[i].in_use =
                      IF total_list[i].addr + sizeof_block_header = p
                      THEN FALSE ELSE total_list[i].in_use]_vars

\* free() has left two free blocks next to each other, and a block in use
C24_Witness ==
  /\ heap.op = "free"
  /\ \E i \in 1 .. Len(total_list) - 1 :
       /\ heap.ptr = get_alloc(total_list[i])
       /\ ~total_list[i].in_use
       /\ ~total_list[i + 1].in_use
  /\ \E i \in 1 .. Len(total_list) : total_list[i].in_use

\* No call of the allocator has followed init_allocator()
JustInitialised == heap = NoHeap

----------------------------------------------------------------------------
(* The layout of the grid: the memory modules the tiles get *)

Directions == {"mem_west", "mem_east", "mem_south", "mem_north"}

\* The static_assert of the accessor of tile (x, y) holds
exists(x, y, dir) ==
  CASE dir = "mem_west" -> is_memory_module_west(x, y)
    [] dir = "mem_east" -> is_memory_module_east(x, y)
    [] dir = "mem_south" -> is_memory_module_south(x, y)
    [] dir = "mem_north" -> is_memory_module_north(x, y)

\* The memory module the accessor of tile (x, y) returns
module(x, y, dir) ==
  CASE dir = "mem_west" -> mem_west(x, y)
    [] dir = "mem_east" -> mem_east(x, y)
    [] dir = "mem_south" -> mem_south(x, y)
    [] dir = "mem_north" -> mem_north(x, y)

\* The accessors of tile (x, y) that compile, mem() being one of mem_west()
\* and mem_east(), and what they return
accessor(x, y, dir) ==
  IF dir = "mem"
  THEN [ok |-> \E d \in Directions :
                 exists(x, y, d) /\ module(x, y, d) = mem(x, y),
        val |-> mem(x, y)]
  ELSE [ok |-> exists(x, y, dir), val |-> module(x, y, dir)]

GeoGrids == (1 .. MaxGeoX) \X (1 .. MaxGeoY)

LayoutInit ==
  /\ \E g \in GeoGrids : x_size = g[1] /\ y_size = g[2]
  /\ kernel = "work"
  /\ value = [m \in Tiles |-> [i \in LockIds |-> FALSE]]
  /\ owner = [m \in Tiles |-> [i \in LockIds |-> NoCtx]]
  /\ waiting = [m \in Tiles |-> [i \in LockIds |-> {}]]
  /\ held = [t \in Tiles |-> {}]
  /\ call = [t \in Tiles |-> NoCall]
  /\ ip = [t \in Tiles |-> 0]
  /\ future_work = [t \in Tiles |-> "invalid"]
  /\ run_pc = "idle"
  /\ run_i = 0
  /\ program = [t \in Tiles |-> <<>>]
  /\ devs = {}
  /\ ndebug = FALSE
  /\ lookup = NoLookup
  /\ probe = NoProbe
  /\ raised = [t \in Tiles |-> FALSE]
  /\ host = NoHost
  /\ HeapOff

\* What a call of a function of the layout leaves as it is
NotProbe == <<x_size, y_size, kernel, program, devs, ndebug, lookup, Heap,
              Locks, ip, future_work, run_pc, run_i, raised, host>>

\* Tile t uses one of its accessors of memory modules
Access(t, dir) ==
  /\ LET r == accessor(X(t), Y(t), dir)
     IN probe' = [fn |-> dir, args |-> <<X(t), Y(t)>>,
                  ok |-> r.ok, val |-> IF r.ok THEN r.val ELSE -1]
  /\ UNCHANGED NotProbe

\* The tiles that get memory module m by one of their accessors
Sharers(m) ==
  {t \in Tiles : \E dir \in Directions \cup {"mem"} :
     accessor(X(t), Y(t), dir).ok /\ accessor(X(t), Y(t), dir).val = m}

\* geo::validate_x_y(): the coordinates are those of a tile of the grid
validate_x_y(x, y) == 0 <= x /\ x <= x_max /\ 0 <= y /\ y <= y_max

\* memory_module() that does not validate the coordinates
memory_module_Unchecked(x, y) == [ok |-> TRUE, val |-> linear_id(x, y)]

\* program::memory_module(x, y): the memory module at (x, y) once the
\* coordinates are validated, else the exception of the validation
memory_module(x, y) ==
  IF validate_x_y(x, y)
  THEN [ok |-> TRUE, val |-> linear_id(x, y)]
  ELSE [ok |-> FALSE, val |-> -1]

MemoryModule(x, y) ==
  /\ LET r == memory_module(x, y)
     IN probe' = [fn |-> "memory_module", args |-> <<x, y>>,
                  ok |-> r.ok, val |-> r.val]
  /\ UNCHANGED NotProbe

\* translate_port() that brings the port number into the range
translate_port_Clamped(user_port, port_min, port_max) ==
  LET last_user_port == port_max - port_min
      port == IF user_port < 0 THEN 0
              ELSE IF user_port > last_user_port THEN last_user_port
              ELSE user_port
  IN [ok |-> TRUE, val |-> port_min + port]

\* translate_port(): the physical port of a user port, or the exception
\* runtime_error
translate_port(user_port, port_min, port_max) ==
  LET last_user_port == port_max - port_min
  IN IF user_port < 0 \/ user_port > last_user_port
     THEN [ok |-> FALSE, val |-> -1]
     ELSE [ok |-> TRUE, val |-> port_min + user_port]

TranslatePort(user_port, port_min, port_max) ==
  /\ LET r == translate_port(user_port, port_min, port_max)
     IN probe' = [fn |-> "translate_port",
                  args |-> <<user_port, port_min, port_max>>,
                  ok |-> r.ok, val |-> r.val]
  /\ UNCHANGED NotProbe

LayoutNext ==
  \/ \E t \in Tiles, dir \in Directions \cup {"mem"} : Access(t, dir)
  \/ \E x \in -MaxBeyond .. x_max + MaxBeyond,
        y \in -MaxBeyond .. y_max + MaxBeyond : MemoryModule(x, y)

LayoutSpec == LayoutInit /\ [][LayoutNext]_vars

\* Tiles t and m are the same tile or next to each other in a row or in a
\* column
Adjacent(t, m) ==
  \/ X(t) = X(m) /\ Y(t) - Y(m) \in {-1, 0, 1}
  \/ Y(t) = Y(m) /\ X(t) - X(m) \in {-1, 1}

\* C26 as stated: at most two tiles get the same memory module
C26_SharedByTwo ==
  \A m \in Tiles : Cardinality(Sharers(m)) <= 2

\* C26 amended: a memory module is got by the tile of the same
\* coordinates, by one tile next to it in its row and by the tiles right
\* above and below it, at most 4 tiles in all and at most 2 of one row
C26_SharedByFour ==
  \A m \in Tiles :
    /\ Cardinality(Sharers(m)) <= 4
    /\ \A t \in Sharers(m) : Adjacent(t, m)
    /\ Cardinality({t \in Sharers(m) : Y(t) = Y(m)}) <= 2
    /\ probe.fn \in Directions \cup {"mem"} /\ probe.ok /\ probe.val = m =>
         Adjacent(linear_id(probe.args[1], probe.args[2]), m)

\* A tile has got by mem_north() a memory module that 4 tiles get
C26_Witness ==
  /\ probe.fn = "mem_north"
  /\ probe.ok
  /\ Cardinality(Sharers(probe.val)) = 4

\* C27: of the West, East, South and North memory modules of a tile at
\* least 1 and at most 4 exist, and mem() gets one that exists: the East
\* one on the even rows, the West one on the odd rows
C27_NativeExists ==
  \A t \in Tiles :
    LET x == X(t)
        y == Y(t)
        n == Cardinality({d \in Directions : exists(x, y, d)})
    IN /\ 1 <= n /\ n <= 4
       /\ accessor(x, y, "mem").ok
       /\ accessor(x, y, "mem").val =
            IF y % 2 = 0 THEN module(x, y, "mem_east")
            ELSE module(x, y, "mem_west")
       /\ exists(x, y, IF y % 2 = 0 THEN "mem_east" ELSE "mem_west")
       /\ probe.fn = "mem" /\ probe.args = <<x, y>> => probe.ok

\* The tile of the 1 x 1 grid, which has one memory module, and a tile
\* with four have called mem()
C27_Witness ==
  /\ probe.fn = "mem"
  /\ probe.ok
  /\ \/ x_size = 1 /\ y_size = 1
     \/ Cardinality({d \in Directions :
                       exists(probe.args[1], probe.args[2], d)}) = 4

\* C28: memory_module(x, y) returns the memory module of the coordinates
\* when 0 <= x < width and 0 <= y < height, and fails without returning a
\* memory module for every other (x, y)
C28_ValidatesCoordinates ==
  probe.fn = "memory_module" =>
    LET x == probe.args[1]
        y == probe.args[2]
    IN IF 0 <= x /\ x < x_size /\ 0 <= y /\ y < y_size
       THEN probe.ok /\ probe.val = x + x_size * y /\ probe.val \in Tiles
       ELSE ~probe.ok /\ probe.val = -1

\* memory_module() has failed for an abscissa right after the grid
C28_Witness ==
  /\ probe.fn = "memory_module"
  /\ probe.args[1] = x_size
  /\ probe.args[2] \in 0 .. y_max
  /\ ~probe.ok

\* The translation of the ports of the switch of the tile of a 1 x 1 grid
PortInit == LayoutInit /\ x_size = 1 /\ y_size = 1

PortNext ==
  \E user_port \in -MaxBeyond .. MaxPort + MaxBeyond,
     port_min \in 0 .. MaxPort, port_max \in 0 .. MaxPort :
    TranslatePort(user_port, port_min, port_max)

PortSpec == PortInit /\ [][PortNext]_vars

\* C29: translate_port() returns port_min + user_port when
\* 0 <= user_port <= port_max - port_min, a port of the range; for every
\* other user port it fails and returns no port
C29_PortInRangeOrError ==
  probe.fn = "translate_port" =>
    LET user_port == probe.args[1]
        port_min == probe.args[2]
        port_max == probe.args[3]
    IN IF 0 <= user_port /\ user_port <= port_max - port_min
       THEN /\ probe.ok
            /\ probe.val = port_min + user_port
            /\ probe.val \in port_min .. port_max
       ELSE ~probe.ok /\ probe.val = -1

\* translate_port() has failed for the user port right after the last one
C29_Witness ==
  /\ probe.fn = "translate_port"
  /\ probe.args[3] > probe.args[2]
  /\ probe.args[1] = probe.args[3] - probe.args[2] + 1
  /\ ~probe.ok

----------------------------------------------------------------------------
(* barrier() on a single row or a single column with tiles in the middle *)

LineGrids == {<<n, 1>> : n \in 3 .. MaxLine} \cup {<<1, n>> : n \in 3 .. MaxLine}

LineInit ==
  /\ \E g \in LineGrids : x_size = g[1] /\ y_size = g[2]
  /\ kernel = "barrier"
  /\ value = [m \in Tiles |-> [i \in LockIds |-> FALSE]]
  /\ owner = [m \in Tiles |-> [i \in LockIds |-> NoCtx]]
  /\ waiting = [m \in Tiles |-> [i \in LockIds |-> {}]]
  /\ held = [t \in Tiles |-> {}]
  /\ call = [t \in Tiles |-> NoCall]
  /\ ip = [t \in Tiles |-> 0]
  /\ future_work = [t \in Tiles |-> "invalid"]
  /\ run_pc = "submit"
  /\ run_i = 0
  /\ program = [t \in Tiles |-> Program(t)]
  /\ devs = {}
  /\ ndebug = FALSE
  /\ lookup = NoLookup
  /\ probe = NoProbe
  /\ raised = [t \in Tiles |-> FALSE]
  /\ host = NoHost
  /\ HeapOff

LineSpec == LineInit /\ [][Next]_vars

\* The lock of the barrier that has something to do on the line
LineLock == IF y_size = 1 THEN horizontal_lock ELSE vertical_lock

\* The neighbour the token comes from and the one it goes to: in a row
\* by the parity of the row, in a column from the South to the North
Upstream(t) ==
  IF y_size = 1 THEN (IF Odd(Y(t)) THEN t - 1 ELSE t + 1) ELSE t - x_size

Downstream(t) ==
  IF y_size = 1 THEN (IF Odd(Y(t)) THEN t + 1 ELSE t - 1) ELSE t + x_size

Middle(t) == Upstream(t) \in Tiles /\ Downstream(t) \in Tiles

\* In the step tile t sets the barrier lock of memory module m
SetsLock(t, m, new_value) ==
  /\ call'[t] # call[t]
  /\ call'[t] = [op |-> "release_with_value", dev |-> <<m, LineLock>>,
                 val |-> new_value, at |-> "notify"]

\* Tile t has called release_with_value() in the operation of this rank
\* of its barrier, or it has no such operation
Past(t, rank) ==
  \/ ip[t] > rank
  \/ ip[t] = rank /\ call[t].op = "release_with_value"
                  /\ call[t].at = "notify"

\* The rank in the barrier of tile t of the operation that passes the
\* token, after the wait for the token when there is one
TokenRank(t) == IF Upstream(t) \in Tiles THEN 3 ELSE 2

\* C30: a tile in the middle passes the token to its downstream neighbour
\* when its upstream neighbour has passed it the token, which is still on
\* the lock of its native memory module; it acknowledges to its upstream
\* neighbour when its downstream neighbour has acknowledged and the lock
\* it shares with it is false again
C30_TokenThenAcknowledge ==
  [][\A t \in Tiles :
       Middle(t) =>
         /\ SetsLock(t, Downstream(t), TRUE) =>
              /\ value[t][LineLock] = TRUE
              /\ Past(Upstream(t), TokenRank(Upstream(t)))
         /\ SetsLock(t, t, FALSE) =>
              /\ value[Downstream(t)][LineLock] = FALSE
              /\ Past(Downstream(t), Len(program[Downstream(t)]))
              /\ Len(program[Downstream(t)]) > 0]_vars

\* The tile in the middle of a row of 3 tiles has returned from barrier()
C30_Witness ==
  /\ x_size = 3
  /\ \E t \in Tiles : Middle(t) /\ Returned(t)

----------------------------------------------------------------------------
(* Work that is over and not joined, and wait() with nothing to join *)

\* The work of tile t is over and wait() has not joined it
Finished(t) == future_work[t] = "valid" /\ Returned(t)

\* C38: single_task() on a tile whose work is over and not joined throws
\* logic_error and starts nothing; the tile holds its work until a wait()
\* on it, the only step after which it has none
C38_FinishedStillRefuses ==
  [][\A t \in Tiles :
       /\ HostCalls("single_task", t) /\ Finished(t) =>
            /\ host'.outcome = "logic_error"
            /\ Finished(t)'
            /\ raised'[t] = raised[t]
       /\ future_work[t] = "valid" /\ future_work'[t] = "invalid" =>
            host'.op = "wait" /\ host'.tile = t]_vars

\* single_task() has thrown on a tile whose work is over
C38_Witness ==
  \E t \in Tiles :
    /\ host = [op |-> "single_task", tile |-> t, outcome |-> "logic_error"]
    /\ Finished(t)

\* The tile has no work submitted and not joined
NothingToJoin(t) == future_work[t] = "invalid"

\* C39: wait() on a tile with no work to join can return at once, returns
\* without a failure and changes nothing of the tiles, their work, their
\* futures or the locks, so a second wait() after a first adds nothing
C39_WaitWithoutWork ==
  /\ [](\A t \in Tiles : NothingToJoin(t) => ENABLED Wait(t))
  /\ [][\A t \in Tiles :
          HostCalls("wait", t) /\ NothingToJoin(t) =>
            /\ host'.outcome = "ok"
            /\ UNCHANGED <<Grid, Locks, future_work, ip, raised,
                           run_pc, run_i>>]_vars

\* wait() has returned on a tile that never had work
C39_Witness ==
  /\ host.op = "wait"
  /\ host.outcome = "ok"
  /\ ip[host.tile] = 0
  /\ NothingToJoin(host.tile)

----------------------------------------------------------------------------
(* The allocator: the same address again, and the regions of the blocks *)

\* C37: when an allocation that has returned p is followed at once by
\* free(p), the allocation of the same size in the state free() leaves
\* returns p again
C37_SameAddressAgain ==
  [][\A size \in 0 .. MaxReq :
       FreesAtOnce(size) => (try_malloc(size).ptr)' = heap.ptr]_vars

\* free() has been called on a block that has a smaller free block before
\* it and a free block after it
C37_Witness ==
  /\ heap.op = "free"
  /\ \E i \in 2 .. Len(total_list) - 1 :
       /\ heap.ptr = get_alloc(total_list[i])
       /\ ~total_list[i].in_use
       /\ ~total_list[1].in_use
       /\ total_list[1].size < total_list[i].size
       /\ ~total_list[i + 1].in_use

\* The bytes from address a, size of them, and the bytes from address b,
\* length of them, have no byte in common
Apart(a, size, b, length) ==
  size = 0 \/ length = 0 \/ size <= b - a \/ length <= a - b

\* C36: the payloads of the blocks in use lie inside the arena, have no
\* byte in common with each other and none in common with the header of
\* any block
C36_RegionsApart ==
  \A i \in 1 .. Len(total_list) :
    total_list[i].in_use =>
      /\ get_alloc(total_list[i]) >= arena_begin
      /\ total_list[i].size <= arena_end - get_alloc(total_list[i])
      /\ \A j \in 1 .. Len(total_list) :
           /\ Apart(get_alloc(total_list[i]), total_list[i].size,
                    total_list[j].addr, sizeof_block_header)
           /\ j # i /\ total_list[j].in_use =>
                Apart(get_alloc(total_list[i]), total_list[i].size,
                      get_alloc(total_list[j]), total_list[j].size)

----------------------------------------------------------------------------
(* The allocator with requests of any 32 bit size *)

\* The sizes asked for: the small ones, the largest ones below 2^31 and
\* the largest ones below 2^32
Requests ==
  (0 .. MaxReq) \cup {size_max - k : k \in 0 .. MaxWide}
                \cup {-k : k \in 1 .. MaxWide}

WideNext ==
  \/ \E size \in Requests : TryMalloc(size)
  \/ \E size \in Requests : Malloc(size)
  \/ \E p \in InUse : Free(p)

WideSpec == AllocInit /\ [][WideNext]_vars

\* C35: an allocation that succeeds returns the payload of a block whose
\* size is at least the size asked for, whatever 32 bit size that is
C35_PayloadHoldsRequest ==
  [][\A size \in Requests :
       Allocates(size) /\ heap'.ptr # nullptr =>
         \A i \in 1 .. Len(total_list') :
           get_alloc(total_list'[i]) = heap'.ptr =>
             GE32(total_list'[i].size, size)]_vars

----------------------------------------------------------------------------
(* The lock handles of the host *)

\* The outcomes of the constructor of host_lock_impl for index i: the
\* handle with id i, or the failure of assert(i < 16)
host_lock_impl(i) ==
  IF i < lock_number \/ ndebug THEN {"handle"} ELSE {"assertion"}

\* host_tile_impl::lock(i) of tile t
HostLock(t, i) ==
  /\ ~Stopped
  /\ \E o \in host_lock_impl(i) : lookup' = [unit |-> t, i |-> i, outcome |-> o]
  /\ UNCHANGED <<x_size, y_size, kernel, program, devs, ndebug, value, owner,
                 waiting, held, call, ip, future_work, run_pc, run_i, raised,
                 host, Heap, probe>>

HostLockNext ==
  \E t \in Tiles, i \in -MaxBeyond .. lock_number - 1 + MaxBeyond :
    HostLock(t, i)

HostLockSpec == LookupBuilds /\ [][HostLockNext]_vars

\* C40: lock(i) of the host side of a tile fails at the call and builds no
\* handle for every i below 0 and every i above 15
C40_HostLockChecksRange ==
  lookup.outcome # "none" /\ (lookup.i < 0 \/ lookup.i > 15) =>
    lookup.outcome # "handle"

----------------------------------------------------------------------------
(* The tiles at the ends of a row or a column *)

\* The tile that passes the token of the lk to tile t is in the grid:
\* for lock 14 the Western one on odd rows and the Eastern one on even
\* rows, for lock 15 the Southern one
HasUpstream(t, lk) ==
  IF lk = horizontal_lock
  THEN IF Odd(Y(t)) THEN X(t) > 0 ELSE X(t) < x_size - 1
  ELSE Y(t) > 0

\* The tile that tile t passes the token of the lock to is in the grid
HasDownstream(t, lk) ==
  IF lk = horizontal_lock
  THEN IF Odd(Y(t)) THEN X(t) < x_size - 1 ELSE X(t) > 0
  ELSE Y(t) < y_size - 1

\* The step is one of tile t in an operation on a lock of memory module m
OperatesOn(t, m, lk) == Acts(t) /\ Operated(t) = <<m, lk>>

\* C31: a tile with no upstream neighbour takes no step on the barrier
\* lock of its own memory module, and a tile with no downstream neighbour
\* takes no step on the barrier lock of another memory module; in a grid
\* one tile wide no step operates on a lock 14 or changes it, in a grid one
\* tile high none does on a lock 15, and there a tile that has entered
\* horizontal_barrier(), vertical_barrier(), has returned from it
C31_EdgeTilesSkip ==
  /\ [][\A t \in Tiles : \A lk \in {horizontal_lock, vertical_lock} :
          \A m \in Tiles :
            OperatesOn(t, m, lk) =>
              /\ m = mem(X(t), Y(t)) => HasUpstream(t, lk)
              /\ m # mem(X(t), Y(t)) => HasDownstream(t, lk)]_vars
  /\ [][/\ x_size = 1 =>
            \A m \in Tiles :
              DevState(m, horizontal_lock)' = DevState(m, horizontal_lock)
        /\ y_size = 1 =>
            \A m \in Tiles :
              DevState(m, vertical_lock)' = DevState(m, vertical_lock)]_vars
  /\ [](\/ x_size = 1 /\ kernel = "horizontal_barrier"
        \/ y_size = 1 /\ kernel = "vertical_barrier"
        => /\ \A t \in Tiles : Entered(t) => Returned(t)
           /\ \A t \in Tiles : call[t] = NoCall
           /\ \A m \in Tiles : \A i \in LockIds : ~value[m][i])

\* Every tile of a grid one tile wide and several high has returned from
\* barrier()
C31_Witness ==
  /\ kernel = "barrier"
  /\ x_size = 1
  /\ y_size >= 2
  /\ \A t \in Tiles : Returned(t)

----------------------------------------------------------------------------
(* The contexts blocked on the locks of the barriers *)

\* A context is in release_with_value() on the device, the value set and
\* cv->notify_one() not called yet
NotifyPending(d) ==
  \E t \in Tiles : call[t].at = "notify" /\ call[t].dev = d

\* C32: with the tiles in barrier(), horizontal_barrier() or
\* vertical_barrier(), at most one context is blocked in cv->wait() of a
\* locking device, and a context is blocked there with the value it
\* expects stored only until the release_with_value() that has stored it
\* calls cv->notify_one()
C32_OneWaiterPerDevice ==
  \A m \in Tiles : \A i \in LockIds :
    /\ Cardinality(waiting[m][i]) <= 1
    /\ \A w \in waiting[m][i] :
         call[w].val = value[m][i] => NotifyPending(<<m, i>>)

\* A context is blocked on lock 15 with the value it expects just stored,
\* and another one on a lock 14
C32_Witness ==
  /\ \E m \in Tiles : \E w \in waiting[m][vertical_lock] :
       call[w].val = value[m][vertical_lock]
  /\ \E m \in Tiles : waiting[m][horizontal_lock] # {}

----------------------------------------------------------------------------
(* barrier() called in a loop *)

LoopGrids == {g \in Grids : g[1] * g[2] <= MaxLoopTiles}

LoopInit ==
  /\ \E g \in LoopGrids : x_size = g[1] /\ y_size = g[2]
  /\ kernel = "compute"
  /\ value = [m \in Tiles |-> [i \in LockIds |-> FALSE]]
  /\ owner = [m \in Tiles |-> [i \in LockIds |-> NoCtx]]
  /\ waiting = [m \in Tiles |-> [i \in LockIds |-> {}]]
  /\ held = [t \in Tiles |-> {}]
  /\ call = [t \in Tiles |-> NoCall]
  /\ ip = [t \in Tiles |-> 0]
  /\ future_work = [t \in Tiles |-> "invalid"]
  /\ run_pc = "submit"
  /\ run_i = 0
  /\ program = [t \in Tiles |-> Program(t)]
  /\ devs = {}
  /\ ndebug = FALSE
  /\ lookup = NoLookup
  /\ probe = NoProbe
  /\ raised = [t \in Tiles |-> FALSE]
  /\ host = NoHost
  /\ HeapOff

LoopSpec == LoopInit /\ [][Next]_vars

FairLoopSpec == LoopSpec /\ WF_vars(Next)

\* The operations of tile t before its k-th barrier(), the k-th
\* computation included
Before(t, k) == (k - 1) * (Len(barrier(X(t), Y(t))) + 1) + 1

\* Tile t has entered its k-th barrier(), has returned from it
EnteredBarrier(t, k) == ip[t] > Before(t, k)

ReturnedBarrier(t, k) == ip[t] >= Before(t, k + 1)

\* C33: with every tile calling barrier() in a loop, no tile returns from
\* its k-th barrier() before every tile has entered its k-th barrier(),
\* and every tile returns from every barrier() it calls
C33_LoopedBarrierHolds ==
  /\ [](\A k \in 1 .. MaxRounds : \A t \in Tiles :
          ReturnedBarrier(t, k) => \A u \in Tiles : EnteredBarrier(u, k))
  /\ <>(\A t \in Tiles : \A k \in 1 .. MaxRounds : ReturnedBarrier(t, k))

\* A tile is in its second barrier() and another one has not returned
\* from its first
C33_Witness ==
  \E t \in Tiles, u \in Tiles :
    /\ EnteredBarrier(t, 2)
    /\ ~ReturnedBarrier(t, 2)
    /\ EnteredBarrier(u, 1)
    /\ ~ReturnedBarrier(u, 1)

\* Every tile has returned from its k-th barrier(), if k is not 0, and
\* none has entered the next one
Between(k) ==
  \A t \in Tiles :
    /\ k = 0 \/ ReturnedBarrier(t, k)
    /\ ~EnteredBarrier(t, k + 1)

\* C34: when every tile is between its k-th barrier() and the next one,
\* and before the first one, lock 14 and lock 15 of every memory module
\* store false
C34_BarrierRestoresLocks ==
  \A k \in 0 .. MaxRounds :
    Between(k) =>
      \A m \in Tiles :
        ~value[m][horizontal_lock] /\ ~value[m][vertical_lock]

\* The tiles of a grid of several rows and columns are between their
\* first barrier() and their second
C34_Witness ==
  /\ x_size >= 2
  /\ y_size >= 2
  /\ Between(1)

====
